---- MODULE Spec2Model ----
(***************************************************************************)
(* Login endpoint of examples/backend-slice: handler.handle_login creates  *)
(* a LoginService and runs LoginService.execute, which consults the        *)
(* LoginRepository, applies three guards in a fixed order, records the     *)
(* last login and mints a token.                                           *)
(*                                                                         *)
(* Several invocations run side by side against one user table.  Every     *)
(* call execute makes is one step, and every call is written to the        *)
(* invocation's call log `calls`.                                          *)
(*                                                                         *)
(* The two LoginRepository methods are stubs in the source (they raise     *)
(* NotImplementedError); their contracts, and those of verify_password and *)
(* generate_jwt, are taken from the design document, section 6.  A         *)
(* repository call therefore has two outcomes in the model: it raises, as  *)
(* the stub does, or it answers by its contract.                           *)
(* service.py uses verify_password, generate_jwt and the three exception   *)
(* classes without defining or importing them; they are taken to be        *)
(* provided by the application, with the contracts of the design document. *)
(*                                                                         *)
(* Two invocations are modelled (Invocations), each serving one request;   *)
(* the emails and passwords they may carry are bounded by MaxEmail and     *)
(* MaxPassword.                                                            *)
(***************************************************************************)
EXTENDS Integers, Sequences, FiniteSets, TLC

\* ------------------------------------------------------------ bounds
MaxEmail == 2
MaxPassword == 2

Emails == 1..MaxEmail
Passwords == 1..MaxPassword
Invocations == {"r1", "r2"}

\* ------------------------------------------------------- data model
\* What get_user_by_email answers when there is no record (falsy in Python).
None == [kind |-> "None"]

\* The opaque identifier of the record stored under email e.
IdOf(e) == <<"id", e>>

\* password-hashing primitive behind verify_password: one-way, not the identity
Hash(pw) == <<"hash", pw>>

\* User records as the table holds them before any login: never logged in.
UserRecords ==
    [kind : {"User"}, id : {IdOf(e) : e \in Emails},
     password_hash : {Hash(pw) : pw \in Passwords},
     is_active : BOOLEAN, last_login : {0}]

\* LoginRequest(email, password)
LoginRequest(e, pw) == [email |-> e, password |-> pw]

NoRequest == [email |-> 0, password |-> 0]

\* LoginResponse(jwt_token, expires_in)
LoginResponse(token, expires) == [jwt_token |-> token, expires_in |-> expires]

NoResponse == [jwt_token |-> <<>>, expires_in |-> 0]

VARIABLES
    users,      \* the persistence collaborator's table: email -> record or None
    users0,     \* history: the table as it was before any invocation
    clock,      \* the collaborator's time, stamped into last_login
    pc,         \* where each invocation is in handle_login / execute
    request,    \* the LoginRequest of each invocation
    user,       \* execute's local `user`, one per invocation
    calls,      \* the calls each invocation has made, in order
    outcome,    \* how each invocation ended: "none" while running
    response    \* the LoginResponse returned, NoResponse if none

vars == <<users, users0, clock, pc, request, user, calls, outcome, response>>

\* ---------------------------------------------------- collaborators
\* LoginRepository.get_user_by_email, by contract: User | absent
find_user_by_email(table, e) == table[e]

\* LoginRepository.update_last_login, by contract: writes the last login time
\* of the records with this id and nothing else.
record_login(table, user_id, now) ==
    [e \in DOMAIN table |->
        IF table[e] # None /\ table[e].id = user_id
        THEN [table[e] EXCEPT !.last_login = now]
        ELSE table[e]]

\* verify(plaintext, hash) -> boolean
verify_password(pw, hash) == Hash(pw) = hash

\* issue_token(user_id, ttl_seconds) -> token_string
generate_jwt(user_id, expires_in) == <<"jwt", user_id, expires_in>>

\* ------------------------------------------------------------ execute
\* Mutant: the token is minted with an hour's expiry.
JwtExpiresInHour == 60 * 60

\* generate_jwt(user.id, expires_in=86400)
JwtExpiresIn == 86400

\* LoginResponse(jwt_token=token, expires_in=86400)
ResponseExpiresIn == 86400

Call(fn, arg, raised, ret) == [fn |-> fn, arg |-> arg, raised |-> raised, ret |-> ret]

\* An exception leaves execute and handle_login: the invocation is over.
Raise(p, exc) ==
    /\ pc' = [pc EXCEPT ![p] = "done"]
    /\ outcome' = [outcome EXCEPT ![p] = exc]

Init ==
    /\ users \in [Emails -> {None} \cup UserRecords]
    /\ \A e \in Emails : users[e] # None => users[e].id = IdOf(e)
    /\ users0 = users
    /\ clock = 1
    /\ pc = [p \in Invocations |-> "idle"]
    /\ request = [p \in Invocations |-> NoRequest]
    /\ user = [p \in Invocations |-> None]
    /\ calls = [p \in Invocations |-> <<>>]
    /\ outcome = [p \in Invocations |-> "none"]
    /\ response = [p \in Invocations |-> NoResponse]

\* handle_login(request): a fresh LoginService, then service.execute(request)
handle_login(p) ==
    /\ pc[p] = "idle"
    /\ \E e \in Emails, pw \in Passwords :
        request' = [request EXCEPT ![p] = LoginRequest(e, pw)]
    /\ pc' = [pc EXCEPT ![p] = "lookup"]
    /\ UNCHANGED <<users, users0, clock, user, calls, outcome, response>>

\* Mutant: a missing user is reported as InvalidCredentials.
GetUserByEmailHidesMissing(p) ==
    /\ pc[p] = "lookup"
    /\ \/ /\ calls' = [calls EXCEPT ![p] =
                Append(@, Call("get_user_by_email", request[p].email, TRUE, None))]
          /\ Raise(p, "NotImplementedError")
          /\ UNCHANGED user
       \/ LET u == find_user_by_email(users, request[p].email) IN
          /\ calls' = [calls EXCEPT ![p] =
                Append(@, Call("get_user_by_email", request[p].email, FALSE, u))]
          /\ user' = [user EXCEPT ![p] = u]
          /\ IF u = None
             THEN Raise(p, "InvalidCredentials")
             ELSE /\ pc' = [pc EXCEPT ![p] = "active"]
                  /\ UNCHANGED outcome
    /\ UNCHANGED <<users, users0, clock, request, response>>

\* user = self.repo.get_user_by_email(request.email); if not user: raise
GetUserByEmail(p) ==
    /\ pc[p] = "lookup"
    /\ \/ /\ calls' = [calls EXCEPT ![p] =
                Append(@, Call("get_user_by_email", request[p].email, TRUE, None))]
          /\ Raise(p, "NotImplementedError")
          /\ UNCHANGED user
       \/ LET u == find_user_by_email(users, request[p].email) IN
          /\ calls' = [calls EXCEPT ![p] =
                Append(@, Call("get_user_by_email", request[p].email, FALSE, u))]
          /\ user' = [user EXCEPT ![p] = u]
          /\ IF u = None
             THEN Raise(p, "UserNotFound")
             ELSE /\ pc' = [pc EXCEPT ![p] = "active"]
                  /\ UNCHANGED outcome
    /\ UNCHANGED <<users, users0, clock, request, response>>

\* Mutant: the password is verified before the active flag is read.
CheckActiveAfterPassword(p) ==
    /\ pc[p] = "active"
    /\ LET u == user[p]
           ok == verify_password(request[p].password, u.password_hash) IN
       IF ~ok
       THEN /\ calls' = [calls EXCEPT ![p] =
                    Append(@, Call("verify_password", u.id, FALSE, ok))]
            /\ Raise(p, "InvalidCredentials")
       ELSE /\ calls' = [calls EXCEPT ![p] =
                    Append(Append(@, Call("verify_password", u.id, FALSE, ok)),
                           Call("is_active", u.id, FALSE, u.is_active))]
            /\ IF ~u.is_active
               THEN Raise(p, "AccountLocked")
               ELSE /\ pc' = [pc EXCEPT ![p] = "update"]
                    /\ UNCHANGED outcome
    /\ UNCHANGED <<users, users0, clock, request, user, response>>

\* Mutant: the active flag is read but never acted on.
CheckActiveIgnored(p) ==
    /\ pc[p] = "active"
    /\ LET u == user[p] IN
       calls' = [calls EXCEPT ![p] =
                Append(@, Call("is_active", u.id, FALSE, u.is_active))]
    /\ pc' = [pc EXCEPT ![p] = "verify"]
    /\ UNCHANGED <<users, users0, clock, request, user, outcome, response>>

\* Mutant: the record of a locked account is deleted.
CheckActivePurges(p) ==
    /\ pc[p] = "active"
    /\ LET u == user[p] IN
       /\ calls' = [calls EXCEPT ![p] =
                Append(@, Call("is_active", u.id, FALSE, u.is_active))]
       /\ IF ~u.is_active
          THEN /\ Raise(p, "AccountLocked")
               /\ users' = [users EXCEPT ![request[p].email] = None]
          ELSE /\ pc' = [pc EXCEPT ![p] = "verify"]
               /\ UNCHANGED <<outcome, users>>
    /\ UNCHANGED <<users0, clock, request, user, response>>

\* if not user.is_active: raise AccountLockedError()
CheckActive(p) ==
    /\ pc[p] = "active"
    /\ LET u == user[p] IN
       /\ calls' = [calls EXCEPT ![p] =
                Append(@, Call("is_active", u.id, FALSE, u.is_active))]
       /\ IF ~u.is_active
          THEN Raise(p, "AccountLocked")
          ELSE /\ pc' = [pc EXCEPT ![p] = "verify"]
               /\ UNCHANGED outcome
    /\ UNCHANGED <<users, users0, clock, request, user, response>>

\* Mutant: the result of verify_password is read the wrong way round.
VerifyPasswordInverted(p) ==
    /\ pc[p] = "verify"
    /\ LET u == user[p]
           ok == verify_password(request[p].password, u.password_hash) IN
       /\ calls' = [calls EXCEPT ![p] =
                Append(@, Call("verify_password", u.id, FALSE, ok))]
       /\ IF ok
          THEN Raise(p, "InvalidCredentials")
          ELSE /\ pc' = [pc EXCEPT ![p] = "update"]
               /\ UNCHANGED outcome
    /\ UNCHANGED <<users, users0, clock, request, user, response>>

\* Mutant: a wrong password raises an untyped ValueError.
VerifyPasswordUntyped(p) ==
    /\ pc[p] = "verify"
    /\ LET u == user[p]
           ok == verify_password(request[p].password, u.password_hash) IN
       /\ calls' = [calls EXCEPT ![p] =
                Append(@, Call("verify_password", u.id, FALSE, ok))]
       /\ IF ~ok
          THEN Raise(p, "ValueError")
          ELSE /\ pc' = [pc EXCEPT ![p] = "update"]
               /\ UNCHANGED outcome
    /\ UNCHANGED <<users, users0, clock, request, user, response>>

\* Mutant: the login attempt is recorded even when the password is wrong.
VerifyPasswordRecordsAttempt(p) ==
    /\ pc[p] = "verify"
    /\ LET u == user[p]
           ok == verify_password(request[p].password, u.password_hash) IN
       IF ~ok
       THEN /\ calls' = [calls EXCEPT ![p] =
                    Append(Append(@, Call("verify_password", u.id, FALSE, ok)),
                           Call("update_last_login", u.id, FALSE, None))]
            /\ users' = record_login(users, u.id, clock)
            /\ clock' = clock + 1
            /\ Raise(p, "InvalidCredentials")
       ELSE /\ calls' = [calls EXCEPT ![p] =
                    Append(@, Call("verify_password", u.id, FALSE, ok))]
            /\ pc' = [pc EXCEPT ![p] = "update"]
            /\ UNCHANGED <<outcome, users, clock>>
    /\ UNCHANGED <<users0, request, user, response>>

\* Mutant: a wrong password locks the account.
VerifyPasswordLocks(p) ==
    /\ pc[p] = "verify"
    /\ LET u == user[p]
           ok == verify_password(request[p].password, u.password_hash) IN
       /\ calls' = [calls EXCEPT ![p] =
                Append(@, Call("verify_password", u.id, FALSE, ok))]
       /\ IF ~ok
          THEN /\ Raise(p, "InvalidCredentials")
               /\ users' = [users EXCEPT ![request[p].email] =
                                [@ EXCEPT !.is_active = FALSE]]
          ELSE /\ pc' = [pc EXCEPT ![p] = "update"]
               /\ UNCHANGED <<outcome, users>>
    /\ UNCHANGED <<users0, clock, request, user, response>>

\* if not verify_password(request.password, user.password_hash): raise
VerifyPassword(p) ==
    /\ pc[p] = "verify"
    /\ LET u == user[p]
           ok == verify_password(request[p].password, u.password_hash) IN
       /\ calls' = [calls EXCEPT ![p] =
                Append(@, Call("verify_password", u.id, FALSE, ok))]
       /\ IF ~ok
          THEN Raise(p, "InvalidCredentials")
          ELSE /\ pc' = [pc EXCEPT ![p] = "update"]
               /\ UNCHANGED outcome
    /\ UNCHANGED <<users, users0, clock, request, user, response>>

\* Mutant: a failure of update_last_login is caught and ignored.
UpdateLastLoginBestEffort(p) ==
    /\ pc[p] = "update"
    /\ LET u == user[p] IN
       \/ /\ calls' = [calls EXCEPT ![p] =
                Append(@, Call("update_last_login", u.id, TRUE, None))]
          /\ pc' = [pc EXCEPT ![p] = "issue"]
          /\ UNCHANGED <<users, clock, outcome>>
       \/ /\ calls' = [calls EXCEPT ![p] =
                Append(@, Call("update_last_login", u.id, FALSE, None))]
          /\ users' = record_login(users, u.id, clock)
          /\ clock' = clock + 1
          /\ pc' = [pc EXCEPT ![p] = "issue"]
          /\ UNCHANGED outcome
    /\ UNCHANGED <<users0, request, user, response>>

\* self.repo.update_last_login(user.id)
UpdateLastLogin(p) ==
    /\ pc[p] = "update"
    /\ LET u == user[p] IN
       \/ /\ calls' = [calls EXCEPT ![p] =
                Append(@, Call("update_last_login", u.id, TRUE, None))]
          /\ Raise(p, "NotImplementedError")
          /\ UNCHANGED <<users, users0, clock>>
       \/ /\ calls' = [calls EXCEPT ![p] =
                Append(@, Call("update_last_login", u.id, FALSE, None))]
          /\ users' = record_login(users, u.id, clock)
          /\ clock' = clock + 1
          /\ pc' = [pc EXCEPT ![p] = "issue"]
          /\ UNCHANGED outcome
    /\ UNCHANGED <<users0, request, user, response>>

\* token = generate_jwt(user.id, expires_in=86400); return LoginResponse(...)
GenerateJwt(p) ==
    /\ pc[p] = "issue"
    /\ LET u == user[p]
           token == generate_jwt(u.id, JwtExpiresIn) IN
       /\ calls' = [calls EXCEPT ![p] =
                Append(@, Call("generate_jwt", <<u.id, JwtExpiresIn>>, FALSE, token))]
       /\ response' = [response EXCEPT ![p] = LoginResponse(token, ResponseExpiresIn)]
    /\ pc' = [pc EXCEPT ![p] = "done"]
    /\ outcome' = [outcome EXCEPT ![p] = "LoginResponse"]
    /\ UNCHANGED <<users, users0, clock, request, user>>

Next ==
    \E p \in Invocations :
        \/ handle_login(p)
        \/ GetUserByEmail(p)
        \/ CheckActive(p)
        \/ VerifyPassword(p)
        \/ UpdateLastLogin(p)
        \/ GenerateJwt(p)

Spec == Init /\ [][Next]_vars

\* ------------------------------------------------------ call-log helpers
Done(p) == pc[p] = "done"

CallsOf(p, fn) == {i \in 1..Len(calls[p]) : calls[p][i].fn = fn}

\* The lookup of p returned (did not raise) and found no record / found one.
LookedUp(p) ==
    \E i \in CallsOf(p, "get_user_by_email") : ~calls[p][i].raised

FoundNone(p) == LookedUp(p) /\ user[p] = None

Found(p) == LookedUp(p) /\ user[p] # None

Matches(p) == verify_password(request[p].password, user[p].password_hash)

\* update_last_login was called by p and raised / returned.
UpdateRaised(p) ==
    \E i \in CallsOf(p, "update_last_login") : calls[p][i].raised

UpdateReturned(p) ==
    \E i \in CallsOf(p, "update_last_login") : ~calls[p][i].raised

TypedFailures == {"UserNotFound", "AccountLocked", "InvalidCredentials"}

\* The order in which execute reaches its collaborators.
CallOrder ==
    <<"get_user_by_email", "is_active", "verify_password",
      "update_last_login", "generate_jwt">>

\* A call let the sequence go on: it returned, and its guard passed.
Passed(c) ==
    /\ ~c.raised
    /\ c.fn = "get_user_by_email" => c.ret # None
    /\ c.fn = "is_active" => c.ret = TRUE
    /\ c.fn = "verify_password" => c.ret = TRUE

\* The outcome of authenticate(e, pw) run alone against a table, with
\* collaborators that answer.
Authenticate(table, e, pw) ==
    LET u == table[e] IN
    IF u = None THEN "UserNotFound"
    ELSE IF ~u.is_active THEN "AccountLocked"
    ELSE IF ~verify_password(pw, u.password_hash) THEN "InvalidCredentials"
    ELSE "LoginResponse"

\* ------------------------------------------------------------------ C1
\* C1: whenever the lookup returns no user record, whatever the password,
\* the invocation is over with UserNotFound and has returned no result.
C1_UserNotFound ==
    \A p \in Invocations :
        FoundNone(p) =>
            /\ Done(p)
            /\ outcome[p] = "UserNotFound"
            /\ response[p] = NoResponse

\* Two invocations with different passwords for an email without a record,
\* both over.
C1_Witness ==
    \E p, q \in Invocations :
        /\ FoundNone(p) /\ FoundNone(q)
        /\ request[p].email = request[q].email
        /\ request[p].password # request[q].password
        /\ Done(p) /\ Done(q)

\* ------------------------------------------------------------------ C2
\* C2: an invocation that found a user whose is_active is false ends with
\* AccountLocked, without a result and without the password having been
\* verified, whether the password matches the stored hash or not.
C2_AccountLocked ==
    \A p \in Invocations :
        (Found(p) /\ ~user[p].is_active /\ Done(p)) =>
            /\ outcome[p] = "AccountLocked"
            /\ response[p] = NoResponse
            /\ CallsOf(p, "verify_password") = {}

\* The same inactive user, once with the right and once with a wrong password.
C2_Witness ==
    \E p, q \in Invocations :
        /\ Found(p) /\ Found(q) /\ Done(p) /\ Done(q)
        /\ request[p].email = request[q].email
        /\ ~user[p].is_active /\ ~user[q].is_active
        /\ Matches(p) /\ ~Matches(q)
        /\ outcome[p] = "AccountLocked" /\ outcome[q] = "AccountLocked"

\* ------------------------------------------------------------------ C3
\* C3: an invocation that found an active user and whose password does not
\* verify against the stored hash ends with InvalidCredentials and no result.
C3_InvalidCredentials ==
    \A p \in Invocations :
        (Found(p) /\ user[p].is_active /\ ~Matches(p) /\ Done(p)) =>
            /\ outcome[p] = "InvalidCredentials"
            /\ response[p] = NoResponse

C3_Witness ==
    \E p \in Invocations :
        /\ Found(p) /\ user[p].is_active /\ ~Matches(p) /\ Done(p)
        /\ CallsOf(p, "verify_password") # {}

\* ------------------------------------------------------------------ C4
\* What a successful login returns: expires_in 86400 and the non-empty token
\* minted for the user's id with a ttl of 86400, the ttl handed to
\* generate_jwt being the expires_in returned.
Success(p) ==
    /\ outcome[p] = "LoginResponse"
    /\ response[p].expires_in = 86400
    /\ response[p].jwt_token = generate_jwt(user[p].id, 86400)
    /\ Len(response[p].jwt_token) > 0
    /\ \E i \in CallsOf(p, "generate_jwt") :
        /\ calls[p][i].arg = <<user[p].id, response[p].expires_in>>
        /\ calls[p][i].ret = response[p].jwt_token

C5_GuardOrder ==
    \A p \in Invocations :
        /\ Len(calls[p]) <= Len(CallOrder)
        /\ \A i \in 1..Len(calls[p]) :
            /\ calls[p][i].fn = CallOrder[i]
            /\ \A j \in 1..(i - 1) : Passed(calls[p][j])
        /\ (outcome[p] = "LoginResponse" \/ response[p] # NoResponse) =>
            /\ Len(calls[p]) = Len(CallOrder)
            /\ \A i \in 1..Len(calls[p]) : Passed(calls[p][i])

\* One invocation stopped at the active flag, the other went through.
C5_Witness ==
    \E p, q \in Invocations :
        /\ Done(p) /\ outcome[p] = "AccountLocked" /\ Len(calls[p]) = 2
        /\ Done(q) /\ outcome[q] = "LoginResponse"

\* ------------------------------------------------------------------ C6
\* C6 as stated: every finished invocation ended in a result or in one of
\* UserNotFound, AccountLocked, InvalidCredentials.
C6_AsStated ==
    \A p \in Invocations :
        Done(p) => outcome[p] \in TypedFailures \cup {"LoginResponse"}

\* C6: every finished invocation ended in exactly one of a result,
\* UserNotFound, AccountLocked, InvalidCredentials, or the exception raised
\* by the repository call it made last; a result is returned exactly when the
\* outcome is the result, and an invocation under way can take a step.
C6_Outcomes ==
    \A p \in Invocations :
        /\ Done(p) =>
            /\ outcome[p] \in TypedFailures \cup {"LoginResponse", "NotImplementedError"}
            /\ (response[p] # NoResponse) <=> (outcome[p] = "LoginResponse")
            /\ (outcome[p] = "NotImplementedError") <=>
                    (/\ calls[p][Len(calls[p])].raised
                     /\ calls[p][Len(calls[p])].fn
                            \in {"get_user_by_email", "update_last_login"})
        /\ ~Done(p) => (outcome[p] = "none" /\ response[p] = NoResponse)
        /\ pc[p] \notin {"idle", "done"} =>
            ENABLED (GetUserByEmail(p) \/ CheckActive(p) \/ VerifyPassword(p)
                        \/ UpdateLastLogin(p) \/ GenerateJwt(p))

\* One invocation ended in the exception of a repository call, the other in
\* a typed failure raised by verify.
C6_Witness ==
    \E p, q \in Invocations :
        /\ Done(p) /\ outcome[p] = "NotImplementedError"
        /\ Done(q) /\ outcome[q] = "InvalidCredentials"

\* ------------------------------------------------------------------ C7
\* C7: update_last_login is called only as the fourth call, after lookup,
\* active flag and password verification passed and before any token is
\* minted, with the id of the looked-up user; an invocation that ended in a
\* typed failure never called it; and no collaborator is called twice.
C7_LastLoginUpdate ==
    \A p \in Invocations :
        /\ \A i \in CallsOf(p, "update_last_login") :
            /\ i = 4
            /\ \A j \in 1..3 : Passed(calls[p][j])
            /\ calls[p][3].fn = "verify_password"
            /\ calls[p][i].arg = calls[p][1].ret.id
            /\ \A j \in CallsOf(p, "generate_jwt") : j > i
        /\ outcome[p] \in TypedFailures => CallsOf(p, "update_last_login") = {}
        /\ \A fn \in {"get_user_by_email", "verify_password",
                      "update_last_login", "generate_jwt"} :
            Cardinality(CallsOf(p, fn)) <= 1

\* One invocation updated and minted, the other failed on its password.
C7_Witness ==
    \E p, q \in Invocations :
        /\ Done(p) /\ UpdateReturned(p) /\ CallsOf(p, "generate_jwt") # {}
        /\ Done(q) /\ outcome[q] = "InvalidCredentials"

\* ------------------------------------------------------------------ C8
\* The invocation that is writing the last login of the record under e.
Authenticated(p, e) ==
    /\ pc[p] = "update"
    /\ user[p].id = users[e].id
    /\ \A j \in 1..3 : Passed(calls[p][j])

\* C8: no step creates or deletes a user record or changes a record's id,
\* password_hash or is_active; a record changes only in its last_login, and
\* only by the update step of an invocation that authenticated that user.
C8_Frame ==
    [][\A e \in Emails :
        /\ (users'[e] = None) <=> (users[e] = None)
        /\ users[e] # None =>
            /\ users'[e].id = users[e].id
            /\ users'[e].password_hash = users[e].password_hash
            /\ users'[e].is_active = users[e].is_active
            /\ users'[e] # users[e] =>
                \E p \in Invocations : Authenticated(p, e) /\ pc'[p] = "issue"
      ]_vars

\* After a successful and a failed invocation the table differs from the
\* initial one, in a last_login.
C8_Witness ==
    /\ users # users0
    /\ \E p, q \in Invocations :
        /\ Done(p) /\ outcome[p] = "LoginResponse"
        /\ Done(q) /\ outcome[q] = "AccountLocked"

\* ------------------------------------------------------------------ C9
\* C9: an invocation's local user is the record the table held for its email
\* (up to last_login), and whatever the interleaving with the other
\* invocation, it ends as it would alone against the initial table: in the
\* outcome of Authenticate with the token for that user, or in the exception
\* of a repository call.
C9_Independent ==
    \A p \in Invocations :
        /\ Found(p) =>
            [user[p] EXCEPT !.last_login = 0] = users0[request[p].email]
        /\ Done(p) =>
            /\ outcome[p] \in
                {Authenticate(users0, request[p].email, request[p].password),
                 "NotImplementedError"}
            /\ outcome[p] = "LoginResponse" =>
                response[p] =
                    LoginResponse(
                        generate_jwt(users0[request[p].email].id, 86400), 86400)

\* Two interleaved invocations for the same user: each looked the record up
\* before the other wrote its last login, and both went through.
C9_Witness ==
    \E p, q \in Invocations :
        /\ p # q /\ Done(p) /\ Done(q)
        /\ request[p].email = request[q].email
        /\ outcome[p] = "LoginResponse" /\ outcome[q] = "LoginResponse"
        /\ user[p].last_login = 0 /\ user[q].last_login = 0

\* ----------------------------------------------------------------- C10
\* C10: when update_last_login raises, the invocation is over with that
\* exception as its outcome, no token was minted and no result returned.
C10_UpdateFailureAborts ==
    \A p \in Invocations :
        UpdateRaised(p) =>
            /\ Done(p)
            /\ outcome[p] = "NotImplementedError"
            /\ CallsOf(p, "generate_jwt") = {}
            /\ response[p] = NoResponse

C10_Witness ==
    \E p \in Invocations :
        /\ UpdateRaised(p)
        /\ \A j \in 1..3 : Passed(calls[p][j])

====
